---- MODULE Spec2Model ----
(***************************************************************************)
(* DatasourcesService (feed-mgr/services/DatasourcesService.js): a         *)
(* stateless client of the data source registry's REST API, with the pure  *)
(* helpers getIds, filterArrayByIds and newJdbcDatasource.                 *)
(*                                                                         *)
(* JavaScript values are tagged records [tag, val]; strings that take part *)
(* in a URL (identifiers, paths) are sequences of one-character strings,   *)
(* so that escaping and decoding are computed character by character.      *)
(***************************************************************************)
EXTENDS Integers, Sequences, FiniteSets, Bags, TLC

VARIABLES
    registry,   \* the remote registry: identifier -> stored entity
    calls,      \* the asynchronous calls issued so far: a bag of call records
    deleted,    \* history: ids whose delete was seen to succeed, no record created since
    args,       \* the arguments the helpers are applied to
    helper      \* the last helper call: its name and its return value

vars == <<registry, calls, deleted, args, helper>>

-----------------------------------------------------------------------------
(* Bounds *)

MaxLen == 3        \* longest array of data sources handed to a helper
MaxIds == 2        \* longest array of ids handed to filterArrayByIds
MaxCalls == 2      \* asynchronous calls issued in one behaviour

-----------------------------------------------------------------------------
(* Program constants *)

JDBC_TYPE == "JdbcDatasource"
USER_TYPE == "UserDatasource"

-----------------------------------------------------------------------------
(* JavaScript values *)

Undefined == <<"undefined">>       \* the value of a missing property

JsUndefined == [tag |-> "undefined", val |-> <<>>]
JsString(s) == [tag |-> "string", val |-> s]
JsObject(o) == [tag |-> "object", val |-> o]
JsArray(a) == [tag |-> "array", val |-> a]

isArray(v) == v.tag = "array"

\* datasource.id: the property, or undefined when the object has none
Prop(o, k) == IF k \in DOMAIN o THEN o[k] ELSE Undefined

Range(s) == {s[i] : i \in 1..Len(s)}

SeqsUpTo(S, n) == UNION {[1..k -> S] : k \in 0..n}

-----------------------------------------------------------------------------
(* The pure helpers *)

\* Array.prototype.indexOf: zero-based index of the first strictly equal element, or -1
RECURSIVE indexOfFrom(_, _, _)
indexOfFrom(list, x, i) ==
    IF i > Len(list) THEN -1
    ELSE IF list[i] = x THEN i - 1
    ELSE indexOfFrom(list, x, i + 1)

indexOf(list, x) == indexOfFrom(list, x, 1)

matchesIdOffByOne(idList, datasource) == indexOf(idList, Prop(datasource, "id")) > 0

matchesIdTruthy(idList, datasource) ==
    /\ Prop(datasource, "id") # Undefined
    /\ indexOf(idList, Prop(datasource, "id")) > -1

\* the callback handed to array.filter
matchesId(idList, datasource) == indexOf(idList, Prop(datasource, "id")) > -1

\* Array.prototype.filter with that callback
RECURSIVE filterFrom(_, _, _)
filterFrom(idList, array, i) ==
    IF i > Len(array) THEN <<>>
    ELSE (IF matchesId(idList, array[i]) THEN <<array[i]>> ELSE <<>>)
             \o filterFrom(idList, array, i + 1)

filterArrayByIds(ids, array) ==
    LET idList == IF isArray(ids) THEN ids.val ELSE <<ids.val>>
    IN  JsArray(filterFrom(idList, array.val, 1))

\* Array.prototype.map with the callback datasource -> datasource.id
RECURSIVE mapIdFrom(_, _)
mapIdFrom(array, i) ==
    IF i > Len(array) THEN <<>>
    ELSE <<Prop(array[i], "id")>> \o mapIdFrom(array, i + 1)

RECURSIVE mapIdDedupFrom(_, _)
mapIdDedupFrom(array, i) ==
    IF i > Len(array) THEN <<>>
    ELSE LET rest == mapIdDedupFrom(array, i + 1)
             id == Prop(array[i], "id")
         IN  IF id \in Range(rest) THEN rest ELSE <<id>> \o rest

getIdsDedup(datasources) ==
    LET array == IF isArray(datasources) THEN datasources.val ELSE <<datasources.val>>
    IN  JsArray(mapIdDedupFrom(array, 1))

getIds(datasources) ==
    LET array == IF isArray(datasources) THEN datasources.val ELSE <<datasources.val>>
    IN  JsArray(mapIdFrom(array, 1))

StringFields ==
    {"name", "description", "type", "databaseConnectionUrl", "databaseDriverClassName",
     "databaseDriverLocation", "databaseUser", "password"}

newJdbcDatasourceWithId ==
    JsObject([k \in {"@type", "sourceForFeeds", "id"} \cup StringFields |->
                 IF k = "@type" THEN JDBC_TYPE
                 ELSE IF k = "sourceForFeeds" THEN <<>>
                 ELSE IF k = "id" THEN <<>>
                 ELSE ""])

newJdbcDatasource ==
    JsObject([k \in {"@type", "sourceForFeeds"} \cup StringFields |->
                 IF k = "@type" THEN JDBC_TYPE
                 ELSE IF k = "sourceForFeeds" THEN <<>>
                 ELSE ""])


-----------------------------------------------------------------------------
(* Request construction *)

Unreserved == {"2", "5", "F", "3"}      \* characters encodeURIComponent keeps
Reserved == {"%", "/", "?", "#"}        \* characters it escapes
Char == Unreserved \cup Reserved

\* the endpoint RestUrlService resolves; "datasource" stands for its last segment
GET_DATASOURCES_URL == <<"/", "datasource">>

escapeOf(ch) ==
    CASE ch = "%" -> <<"%", "2", "5">>
      [] ch = "/" -> <<"%", "2", "F">>
      [] ch = "?" -> <<"%", "3", "F">>
      [] ch = "#" -> <<"%", "2", "3">>

RECURSIVE encodeURIComponent(_)
encodeURIComponent(s) ==
    IF s = <<>> THEN <<>>
    ELSE (IF Head(s) \in Unreserved THEN <<Head(s)>> ELSE escapeOf(Head(s)))
             \o encodeURIComponent(Tail(s))

NoParams == {}

\* each operation: the request handed to $http, and whether .then(response.data) follows
deleteById(id) ==
    [request |-> [method |-> "DELETE",
                  url |-> GET_DATASOURCES_URL \o <<"/">> \o encodeURIComponent(id),
                  params |-> NoParams,
                  data |-> JsUndefined],
     then |-> "none"]

findAllUnfiltered ==
    [request |-> [method |-> "GET",
                  url |-> GET_DATASOURCES_URL,
                  params |-> NoParams,
                  data |-> JsUndefined],
     then |-> "data"]

findAll ==
    [request |-> [method |-> "GET",
                  url |-> GET_DATASOURCES_URL,
                  params |-> {<<"type", USER_TYPE>>},
                  data |-> JsUndefined],
     then |-> "data"]

findById(id) ==
    [request |-> [method |-> "GET",
                  url |-> GET_DATASOURCES_URL \o <<"/">> \o id,
                  params |-> NoParams,
                  data |-> JsUndefined],
     then |-> "data"]

save(datasource) ==
    [request |-> [method |-> "POST",
                  url |-> GET_DATASOURCES_URL,
                  params |-> NoParams,
                  data |-> datasource],
     then |-> "data"]

-----------------------------------------------------------------------------
(* Promises *)

JsResponse(r) == [tag |-> "response", val |-> r]

Pending == [state |-> "pending", value |-> JsUndefined]

\* $http settles with the response object: resolved for a 2xx status, rejected otherwise
httpPromise(response) ==
    [state |-> IF response.status >= 200 /\ response.status < 300
               THEN "resolved" ELSE "rejected",
     value |-> JsResponse(response)]

thenDataSwallow(promise) ==
    IF promise.state = "resolved"
    THEN [state |-> "resolved", value |-> promise.value.val.data]
    ELSE [state |-> "resolved", value |-> JsUndefined]

\* .then(function (response) { return response.data; }): a rejection passes through
thenData(promise) ==
    IF promise.state = "resolved"
    THEN [state |-> "resolved", value |-> promise.value.val.data]
    ELSE promise

\* the promise the operation returns, once the transport has reported response
settle(then, response) ==
    IF then = "data" THEN thenData(httpPromise(response)) ELSE httpPromise(response)

-----------------------------------------------------------------------------
(* The transport and the registry, as the client's requests meet them *)

\* the part of s before the first ch
RECURSIVE upTo(_, _)
upTo(s, ch) ==
    IF s = <<>> \/ Head(s) = ch THEN <<>>
    ELSE <<Head(s)>> \o upTo(Tail(s), ch)

\* the path of a URL: the fragment is not sent, the query starts at the first '?'
pathOf(url) == upTo(upTo(url, "#"), "?")

HexDigit == {"2", "3", "5", "F"}

\* the character a %XY escape stands for ("other": a character outside Char)
hexChar(h1, h2) ==
    CASE <<h1, h2>> = <<"2", "5">> -> "%"
      [] <<h1, h2>> = <<"2", "F">> -> "/"
      [] <<h1, h2>> = <<"3", "F">> -> "?"
      [] <<h1, h2>> = <<"2", "3">> -> "#"
      [] <<h1, h2>> = <<"3", "2">> -> "2"
      [] <<h1, h2>> = <<"3", "5">> -> "5"
      [] <<h1, h2>> = <<"3", "3">> -> "3"
      [] OTHER -> "other"

\* percent-decoding of one path segment; ok is FALSE for a malformed escape
RECURSIVE percentDecode(_)
percentDecode(s) ==
    IF s = <<>> THEN [ok |-> TRUE, val |-> <<>>]
    ELSE IF Head(s) = "%"
         THEN IF Len(s) >= 3 /\ s[2] \in HexDigit /\ s[3] \in HexDigit
              THEN LET rest == percentDecode(SubSeq(s, 4, Len(s)))
                   IN  [ok |-> rest.ok, val |-> <<hexChar(s[2], s[3])>> \o rest.val]
              ELSE [ok |-> FALSE, val |-> <<>>]
         ELSE LET rest == percentDecode(Tail(s))
              IN  [ok |-> rest.ok, val |-> <<Head(s)>> \o rest.val]

\* the resource a request URL addresses: the collection, the record with a decoded
\* identifier, no resource at all, or a request the server cannot parse
route(url) ==
    LET path == pathOf(url)
        base == Len(GET_DATASOURCES_URL)
        rest == SubSeq(path, base + 1, Len(path))
    IN  IF rest = <<>> THEN [kind |-> "collection", id |-> <<>>]
        ELSE LET segment == Tail(rest)
                 decoded == percentDecode(segment)
             IN  IF segment = <<>> \/ "/" \in Range(segment)
                 THEN [kind |-> "none", id |-> <<>>]
                 ELSE IF ~decoded.ok THEN [kind |-> "malformed", id |-> <<>>]
                 ELSE [kind |-> "record", id |-> decoded.val]

\* identifiers the registry may hold or assign, in the order it lists them
RegIdOrder == << <<"2">>, <<"%", "3", "2">> >>
RegIds == Range(RegIdOrder)

Failure(status) == [status |-> status, data |-> JsUndefined]
NetworkFailure == Failure(-1)
NoResponse == Failure(0)

\* the records of reg, in listing order, restricted by the type parameter if given
listing(reg, params) ==
    SelectSeq([i \in 1..Len(RegIdOrder) |->
                  IF RegIdOrder[i] \in DOMAIN reg THEN reg[RegIdOrder[i]]
                  ELSE [none |-> TRUE]],
              LAMBDA e : /\ "@type" \in DOMAIN e
                         /\ \A p \in params : p[1] = "type" => e["@type"] = p[2])

without(reg, id) == [k \in DOMAIN reg \ {id} |-> reg[k]]

\* the registry's answer to a request in state reg, and its state afterwards;
\* fresh is the identifier it assigns if the request creates a record
registryAnswer(request, reg, fresh) ==
    LET r == route(request.url)
        keep(response) == [response |-> response, registry |-> reg]
    IN  IF r.kind = "malformed" THEN keep(Failure(400))
        ELSE IF r.kind = "none" THEN keep(Failure(404))
        ELSE IF r.kind = "record"
        THEN IF r.id \notin DOMAIN reg THEN keep(Failure(404))
             ELSE IF request.method = "GET"
                  THEN keep([status |-> 200, data |-> JsObject(reg[r.id])])
             ELSE IF request.method = "DELETE"
                  THEN [response |-> [status |-> 204, data |-> JsString(<<>>)],
                        registry |-> without(reg, r.id)]
             ELSE keep(Failure(405))
        ELSE IF request.method = "GET"
             THEN keep([status |-> 200, data |-> JsArray(listing(reg, request.params))])
        ELSE IF request.method = "POST" /\ request.data.tag = "object"
             THEN LET body == request.data.val
                  IN  IF "id" \in DOMAIN body
                      THEN IF body["id"] \in DOMAIN reg
                           THEN [response |-> [status |-> 200, data |-> JsObject(body)],
                                 registry |-> (body["id"] :> body) @@ reg]
                           ELSE keep(Failure(404))
                      ELSE IF fresh \in DOMAIN reg THEN keep(Failure(500))
                      ELSE LET stored == ("id" :> fresh) @@ body
                           IN  [response |-> [status |-> 200, data |-> JsObject(stored)],
                                registry |-> (fresh :> stored) @@ reg]
        ELSE keep(Failure(405))

-----------------------------------------------------------------------------
(* Inputs *)

\* identifiers handed to deleteById and findById
CallIds == RegIds \cup { <<"/">> }

\* a data source as the user edits it after newJdbcDatasource()
edited(name) == JsObject([newJdbcDatasource.val EXCEPT !["name"] = name])

\* data sources handed to save: a new one, and one that carries an id already
SaveArgs ==
    {edited("n"), JsObject(("id" :> <<"2">>) @@ edited("n").val)}

\* data sources and ids handed to the helpers
HelperIds == { <<"2">>, <<"5">> }
HelperDatasources ==
    {("name" :> n) : n \in {"x", "y"}}
        \cup {("id" :> i) @@ ("name" :> n) : i \in HelperIds, n \in {"x", "y"}}

DatasourcesArgs ==
    {JsObject(d) : d \in HelperDatasources}
        \cup {JsArray(a) : a \in SeqsUpTo(HelperDatasources, MaxLen)}

IdsArgs ==
    {JsString(i) : i \in HelperIds}
        \cup {JsArray(a) : a \in SeqsUpTo(HelperIds \cup {Undefined}, MaxIds)}

-----------------------------------------------------------------------------
(* The state after construction *)

NoHelper == [op |-> "none", ret |-> JsUndefined]

InitService ==
    /\ registry = <<>>
    /\ calls = EmptyBag
    /\ deleted = {}
    /\ helper = NoHelper

Init ==
    /\ InitService
    /\ args = [ids |-> JsString(<<"2">>),
               datasources |-> JsArray(<< ("name" :> "x"),
                                          ("id" :> <<"2">>) @@ ("name" :> "y") >>)]

InitHelpers ==
    /\ InitService
    /\ args \in [ids : IdsArgs, datasources : DatasourcesArgs]

-----------------------------------------------------------------------------
(* The helpers, called *)

CallGetIds ==
    /\ helper' = [op |-> "getIds", ret |-> getIds(args.datasources)]
    /\ UNCHANGED <<registry, calls, deleted, args>>

CallFilterArrayByIds ==
    /\ isArray(args.datasources)
    /\ helper' = [op |-> "filterArrayByIds",
                  ret |-> filterArrayByIds(args.ids, args.datasources)]
    /\ UNCHANGED <<registry, calls, deleted, args>>

CallNewJdbcDatasource ==
    /\ helper' = [op |-> "newJdbcDatasource", ret |-> newJdbcDatasource]
    /\ UNCHANGED <<registry, calls, deleted, args>>

-----------------------------------------------------------------------------------------------------------------------------------------------------
(* The asynchronous operations, called *)

Issued == BagToSet(calls)

\* history: the ids the registry has returned to a save of a data source without one
saved ==
    {c.promise.value.val["id"] :
        c \in {s \in Issued : /\ s.op = "save"
                               /\ s.promise.state = "resolved"
                               /\ "id" \notin DOMAIN s.arg.val}}

One(c) == SetToBag({c})

\* the call record: what was asked, the one request handed to $http, and the promise
issue(op, arg, made) ==
    [op |-> op, arg |-> arg, then |-> made.then, request |-> made.request, sent |-> 1,
     response |-> NoResponse, promise |-> Pending,
     afterDelete |-> op = "findById" /\ arg.val \in deleted,
     afterSave |-> op = "findById" /\ arg.val \in saved]

Call(op, arg, made) ==
    /\ BagCardinality(calls) < MaxCalls
    /\ calls' = calls (+) One(issue(op, arg, made))
    /\ UNCHANGED <<registry, deleted, args, helper>>

CallDeleteById == \E id \in CallIds : Call("deleteById", JsString(id), deleteById(id))

CallFindAll == Call("findAll", JsUndefined, findAll)

CallFindById == \E id \in CallIds : Call("findById", JsString(id), findById(id))

CallSave == \E datasource \in SaveArgs : Call("save", datasource, save(datasource))

-----------------------------------------------------------------------------
(* The registry and the transport *)

\* a record created directly against the registry, of either subtype
RegistryCreate ==
    \E id \in RegIds, type \in {JDBC_TYPE, USER_TYPE} :
        /\ id \notin DOMAIN registry
        /\ registry' = (id :> (("id" :> id) @@ ("@type" :> type) @@ ("name" :> "direct")))
                           @@ registry
        /\ deleted' = deleted \ {id}
        /\ UNCHANGED <<calls, args, helper>>

DeliverCoalesced(c, response) ==
    LET same == {d \in Issued : d.promise = Pending /\ d.request = c.request}
        settled(d) == [d EXCEPT !.response = response,
                                !.promise = settle(d.then, response),
                                !.afterDelete = d.afterDelete /\ d.arg.val \in deleted]
        rest == [d \in Issued \ same |-> calls[d]]
    IN  calls' = rest (+) [d \in {settled(e) : e \in same} |->
                              BagCardinality([e \in {x \in same : settled(x) = d} |-> calls[e]])]

\* the transport reports response for call c and the promise of c settles
Deliver(c, response) ==
    LET settled == [c EXCEPT !.response = response,
                             !.promise = settle(c.then, response),
                             !.afterDelete = c.afterDelete /\ c.arg.val \in deleted]
    IN  calls' = (calls (-) One(c)) (+) One(settled)

\* the registry takes the request of call c and answers it
RegistryAnswerTo(c) ==
    \E fresh \in RegIds :
        LET answer == registryAnswer(c.request, registry, fresh)
            created == DOMAIN answer.registry \ DOMAIN registry
        IN  /\ c.promise = Pending
            /\ registry' = answer.registry
            /\ Deliver(c, answer.response)
            /\ deleted' = IF c.op = "deleteById" /\ answer.response.status = 204
                          THEN deleted \cup {c.arg.val} ELSE deleted \ created
            /\ UNCHANGED <<args, helper>>

RegistryAnswer == \E c \in Issued : RegistryAnswerTo(c)

\* the request of call c gets no answer from the registry
NetworkFailOf(c) ==
    /\ c.promise = Pending
    /\ Deliver(c, NetworkFailure)
    /\ UNCHANGED <<registry, deleted, args, helper>>

NetworkFail == \E c \in Issued : NetworkFailOf(c)

-----------------------------------------------------------------------------
(* Specifications *)

Next ==
    \/ CallDeleteById
    \/ CallFindAll
    \/ CallFindById
    \/ CallSave
    \/ RegistryCreate
    \/ RegistryAnswer
    \/ NetworkFail
    \/ CallGetIds
    \/ CallFilterArrayByIds
    \/ CallNewJdbcDatasource

Spec == Init /\ [][Next]_vars

NextHelpers ==
    \/ CallGetIds
    \/ CallFilterArrayByIds
    \/ CallNewJdbcDatasource

SpecHelpers == InitHelpers /\ [][NextHelpers]_vars

-----------------------------------------------------------------------------
(* Properties *)

Settled(c) == c.promise # Pending
Resolved(c) == c.promise.state = "resolved"
Rejected(c) == c.promise.state = "rejected"

idSeqOf(ids) == IF ids.tag = "array" THEN ids.val ELSE <<ids.val>>

Reverse(s) == [i \in 1..Len(s) |-> s[Len(s) + 1 - i]]

\* C1: filterArrayByIds(ids, array) is exactly the elements of array whose id is a
\* member of ids (a single id counting as the one-element sequence), in array's
\* order and with array's multiplicities; the order of ids does not matter, and the
\* result is empty when ids is empty or no element's id is in ids.
C1_FilterIsSubsequenceOfMatches ==
    helper.op = "filterArrayByIds" =>
        LET idSet == Range(idSeqOf(args.ids))
            array == args.datasources.val
            kept == {i \in 1..Len(array) : Prop(array[i], "id") \in idSet}
        IN  /\ helper.ret.tag = "array"
            /\ helper.ret.val = SelectSeq(array, LAMBDA d : Prop(d, "id") \in idSet)
            /\ Len(helper.ret.val) = Cardinality(kept)
            /\ isArray(args.ids) =>
                   filterArrayByIds(JsArray(Reverse(args.ids.val)), args.datasources)
                       = helper.ret
            /\ (idSet = {} \/ kept = {}) => helper.ret.val = <<>>

C1_Witness ==
    /\ helper.op = "filterArrayByIds"
    /\ args.ids.tag = "string"
    /\ Len(args.datasources.val) = 3
    /\ Len(helper.ret.val) = 2
    /\ helper.ret.val[1] # helper.ret.val[2]

\* C2: getIds of a single entity is the one-element sequence of its id; of a
\* sequence it has the input's length and its i-th element is the id of the i-th
\* entity, an absent id being passed through as undefined.
C2_GetIdsMapsEachEntity ==
    helper.op = "getIds" =>
        /\ helper.ret.tag = "array"
        /\ ~isArray(args.datasources) =>
               helper.ret.val = <<Prop(args.datasources.val, "id")>>
        /\ isArray(args.datasources) =>
               /\ Len(helper.ret.val) = Len(args.datasources.val)
               /\ \A i \in 1..Len(args.datasources.val) :
                      helper.ret.val[i] =
                          IF "id" \in DOMAIN args.datasources.val[i]
                          THEN args.datasources.val[i]["id"] ELSE Undefined

C2_Witness ==
    /\ helper.op = "getIds"
    /\ isArray(args.datasources)
    /\ Len(helper.ret.val) = 3
    /\ helper.ret.val[1] = helper.ret.val[3]
    /\ helper.ret.val[1] # Undefined
    /\ helper.ret.val[2] = Undefined

C4_NewJdbcDatasourceIsBlank ==
    /\ [](helper.op = "newJdbcDatasource" =>
            /\ helper.ret.tag = "object"
            /\ DOMAIN helper.ret.val =
                   {"@type", "name", "description", "sourceForFeeds", "type",
                    "databaseConnectionUrl", "databaseDriverClassName",
                    "databaseDriverLocation", "databaseUser", "password"}
            /\ "id" \notin DOMAIN helper.ret.val
            /\ helper.ret.val["@type"] = "JdbcDatasource"
            /\ helper.ret.val["sourceForFeeds"] = <<>>
            /\ \A k \in DOMAIN helper.ret.val \ {"@type", "sourceForFeeds"} :
                   helper.ret.val[k] = "")
    /\ [][helper' # helper => calls' = calls /\ registry' = registry]_vars

C4_Witness ==
    /\ helper.op = "newJdbcDatasource"
    /\ \E c \in Issued : ~Settled(c)

\* C5: a findById(id) issued after deleteById(id) was seen to succeed, with no
\* record of that id created since, never yields an entity: it fails, and with
\* not-found whenever the registry answered it.
C5_FindAfterDeleteIsNotFound ==
    \A c \in Issued :
        (c.op = "findById" /\ c.afterDelete /\ Settled(c)) =>
            /\ Rejected(c)
            /\ c.response.status \in {404, -1}

\* C6: save sends the data source as it was given, and once save of a data source
\* without id has returned an entity with id r, a findById(r) issued afterwards and
\* answered by the registry, no delete or other save intervening, succeeds with an
\* entity that has the discriminator and the fields that were sent.
C6_SaveThenFindRoundTrip ==
    /\ \A s \in Issued : s.op = "save" => s.request.data = s.arg
    /\ \A s, f \in Issued :
           (/\ s.op = "save" /\ Resolved(s) /\ "id" \notin DOMAIN s.arg.val
            /\ f.op = "findById" /\ f.afterSave /\ Settled(f)
            /\ f.arg.val = s.promise.value.val["id"]
            /\ f.response.status # -1
            /\ \A o \in Issued \ {s, f} : o.op \in {"findAll", "findById"})
           => /\ Resolved(f)
              /\ f.promise.value.tag = "object"
              /\ \A k \in DOMAIN s.arg.val :
                     /\ k \in DOMAIN f.promise.value.val
                     /\ f.promise.value.val[k] = s.arg.val[k]

\* C7: the GET of findAll always carries type=UserDatasource, and a successful
\* findAll returns the registry's answer as it is, all of it of that discriminator.
C7_FindAllOnlyUserDatasources ==
    \A c \in Issued :
        c.op = "findAll" =>
            /\ c.request.method = "GET"
            /\ c.request.url = GET_DATASOURCES_URL
            /\ c.request.params = {<<"type", "UserDatasource">>}
            /\ c.sent = 1
            /\ Resolved(c) =>
                   /\ c.promise.value = c.response.data
                   /\ c.promise.value.tag = "array"
                   /\ \A i \in 1..Len(c.promise.value.val) :
                          c.promise.value.val[i]["@type"] = "UserDatasource"

C7_Witness ==
    \E c \in Issued :
        /\ c.op = "findAll" /\ Resolved(c)
        /\ Len(c.promise.value.val) = 1
        /\ Cardinality(DOMAIN registry) = 2
        /\ \E id \in DOMAIN registry : registry[id]["@type"] = JDBC_TYPE
        /\ \A o \in Issued : o.op = "findAll"

\* C8: calls do not interact. The transport can report on a pending call whatever
\* the other calls are doing; two calls of the same operation that got the same
\* response have the same result; a step adds one call or settles one call and
\* leaves every other call as it was; a helper call changes neither the calls, nor
\* the registry, nor its arguments.
C8_CallsAreIndependent ==
    /\ [](\A c \in Issued :
            /\ ~Settled(c) => ENABLED NetworkFailOf(c)
            /\ \A d \in Issued :
                   (Settled(c) /\ Settled(d) /\ c.op = d.op /\ c.response = d.response)
                       => c.promise = d.promise)
    /\ [][/\ calls' # calls =>
               \/ \E c \in BagToSet(calls') :
                      /\ ~Settled(c)
                      /\ calls' = calls (+) One(c)
               \/ \E c \in Issued, d \in BagToSet(calls') :
                      /\ ~Settled(c) /\ Settled(d)
                      /\ d.op = c.op /\ d.arg = c.arg /\ d.request = c.request
                      /\ d.sent = c.sent
                      /\ calls' (+) One(c) = calls (+) One(d)
          /\ helper' # helper =>
               calls' = calls /\ registry' = registry /\ args' = args
          /\ args' = args]_vars

C8_Witness ==
    \E c, d \in Issued :
        /\ c.request = d.request
        /\ Resolved(c) /\ Rejected(d)
        /\ helper.op = "getIds"

\* C9: for every identifier, the request of deleteById(id) and the request of
\* findById(id) both address the registry record whose identifier is id.
C9_DeleteAndFindAddressSameRecord ==
    \A c \in Issued :
        c.op \in {"deleteById", "findById"} =>
            route(c.request.url) = [kind |-> "record", id |-> c.arg.val]

\* C10: filtering a sequence by its own ids gives the sequence back, and filtering
\* a filtered sequence again by the same ids changes nothing.
C10_FilterByOwnIdsAndIdempotent ==
    /\ (helper.op = "getIds" /\ isArray(args.datasources)) =>
           filterArrayByIds(helper.ret, args.datasources) = args.datasources
    /\ helper.op = "filterArrayByIds" =>
           filterArrayByIds(args.ids, helper.ret) = helper.ret

C10_Witness ==
    /\ helper.op = "getIds"
    /\ isArray(args.datasources)
    /\ Len(helper.ret.val) = 2
    /\ helper.ret.val[1] = Undefined
    /\ helper.ret.val[2] # Undefined

====
